---- MODULE Spec2Model ----
(***************************************************************************)
(* splatflac: parsing of a CUE sheet into file/track entries (parse_cue)   *)
(* and the per-track splitting loop that follows it (split_files).         *)
(*                                                                         *)
(* Text is modelled as a sequence of one-character strings, so that        *)
(* stripping, keyword matching, tokenizing and sanitizing are computed     *)
(* character by character as the program does.  An Optional value is a     *)
(* sequence of length 0 (None) or 1.  A Fraction of seconds is held as a   *)
(* whole number of 1/75-second frames.                                     *)
(***************************************************************************)
EXTENDS Integers, Sequences, FiniteSets, TLC

\* ------------------------------------------------------------------ bounds
MaxLines == 4          \* lines of a CUE text drawn from CueLines
MaxPlainLines == 7     \* lines of a CUE text drawn from PlainLines
MaxTrackNo == 3        \* largest TRACK number of a drawn sheet

\* ------------------------------------------------------------ Optional[T]
None == <<>>
Some(v) == <<v>>
IsNone(x) == x = <<>>
Get(x) == x[1]

\* --------------------------------------------------------------- CUE text
L_FileA == <<"F", "I", "L", "E", " ", "\"", "a", ".", "f", "l", "a", "c", "\"", " ", "W", "A", "V", "E">>
L_FileB == <<"f", "i", "l", "e", " ", "b", ".", "m", "p", "3", " ", "W", "A", "V", "E">>
L_FileBad == <<"F", "I", "L", "E", " ", "a", ".", "f", "l", "a", "c">>
L_Track1 == <<" ", " ", "T", "R", "A", "C", "K", " ", "0", "1", " ", "A", "U", "D", "I", "O">>
L_Track2 == <<"T", "R", "A", "C", "K", " ", "0", "2", " ", "A", "U", "D", "I", "O">>
L_TrackBare == <<"T", "R", "A", "C", "K">>
L_TrackNaN == <<"T", "R", "A", "C", "K", " ", "x", "x", " ", "A", "U", "D", "I", "O">>
L_TitleTest == <<" ", " ", " ", " ", "T", "I", "T", "L", "E", " ", "\"", "I", "t", "'", "s", " ", "a", " ", "t", "e", "s", "t", "\"">>
L_TitleHello == <<" ", " ", " ", " ", "T", "I", "T", "L", "E", " ", "\"", "H", "e", " ", "s", "a", "i", "d", " ", "\"", "H", "e", "l", "l", "o", "\"", " ", "t", "o", "d", "a", "y", "\"">>
L_TitleA == <<"T", "I", "T", "L", "E", " ", "A">>
L_TitleB == <<"t", "i", "t", "l", "e", " ", "B">>
L_TitleBare == <<"T", "I", "T", "L", "E", " ">>
L_TitleEmpty == <<"T", "I", "T", "L", "E", " ", "\"", "\"">>
L_TitleOpen == <<"T", "I", "T", "L", "E", " ", "\"", "A">>
L_PerfP == <<"P", "E", "R", "F", "O", "R", "M", "E", "R", " ", "P">>
L_PerfQ == <<"P", "E", "R", "F", "O", "R", "M", "E", "R", " ", "Q">>
L_PerfBare == <<"P", "E", "R", "F", "O", "R", "M", "E", "R">>
L_Index0 == <<"I", "N", "D", "E", "X", " ", "0", "1", " ", "0", "0", ":", "0", "0", ":", "0", "0">>
L_Index1 == <<"I", "N", "D", "E", "X", " ", "0", "1", " ", "0", "0", ":", "0", "1", ":", "0", "0">>
L_Pregap == <<"I", "N", "D", "E", "X", " ", "0", "0", " ", "0", "0", ":", "0", "0", ":", "0", "0">>
L_IndexRange == <<"I", "N", "D", "E", "X", " ", "0", "1", " ", "0", "0", ":", "6", "0", ":", "0", "0">>
L_IndexShort == <<"I", "N", "D", "E", "X", " ", "0", "1">>
L_IndexBadTc == <<"I", "N", "D", "E", "X", " ", "0", "1", " ", "0", ":", "0", ":", "0">>
L_Rem == <<"R", "E", "M", " ", "x">>
L_Blank == <<>>
T_Test == <<"I", "t", "'", "s", " ", "a", " ", "t", "e", "s", "t">>
T_HelloQuoted == <<"H", "e", " ", "s", "a", "i", "d", " ", "\"", "H", "e", "l", "l", "o", "\"", " ", "t", "o", "d", "a", "y">>
K_FILE == <<"F", "I", "L", "E", " ">>
K_TRACK == <<"T", "R", "A", "C", "K", " ">>
K_TITLE == <<"T", "I", "T", "L", "E", " ">>
K_PERFORMER == <<"P", "E", "R", "F", "O", "R", "M", "E", "R", " ">>
K_INDEX == <<"I", "N", "D", "E", "X", " ">>
K_REM == <<"R", "E", "M">>
S_Untitled == <<"u", "n", "t", "i", "t", "l", "e", "d">>
S_Flac == <<".", "f", "l", "a", "c">>
S_Sep == <<" ", "-", " ">>

\* ------------------------------------------------------------ str methods
LowerChars == <<"a","b","c","d","e","f","g","h","i","j","k","l","m",
                "n","o","p","q","r","s","t","u","v","w","x","y","z">>
UpperChars == <<"A","B","C","D","E","F","G","H","I","J","K","L","M",
                "N","O","P","Q","R","S","T","U","V","W","X","Y","Z">>
DigitChars == <<"0","1","2","3","4","5","6","7","8","9">>

IsSpace(c) == c \in {" ", "\t"}
IsDigit(c) == \E i \in 1..10 : DigitChars[i] = c
DigitVal(c) == (CHOOSE i \in 1..10 : DigitChars[i] = c) - 1

UpperChar(c) ==
  IF \E i \in 1..26 : LowerChars[i] = c
  THEN UpperChars[CHOOSE i \in 1..26 : LowerChars[i] = c]
  ELSE c
LowerChar(c) ==
  IF \E i \in 1..26 : UpperChars[i] = c
  THEN LowerChars[CHOOSE i \in 1..26 : UpperChars[i] = c]
  ELSE c
Upper(s) == [i \in 1..Len(s) |-> UpperChar(s[i])]
Lower(s) == [i \in 1..Len(s) |-> LowerChar(s[i])]

StartsWith(s, p) == Len(s) >= Len(p) /\ SubSeq(s, 1, Len(p)) = p

RECURSIVE LStrip(_)
LStrip(s) == IF s # <<>> /\ IsSpace(Head(s)) THEN LStrip(Tail(s)) ELSE s
RECURSIVE RStrip(_)
RStrip(s) ==
  IF s # <<>> /\ IsSpace(s[Len(s)]) THEN RStrip(SubSeq(s, 1, Len(s) - 1)) ELSE s
Strip(s) == RStrip(LStrip(s))

\* ---------------------------------------------- shlex.split(line, posix=True)
\* The tokenizer's scan: st is the lexer state ("ws" between tokens, "a" in a
\* word, a quote character inside quotes, "\\" after an escape), esc the state
\* an escape returns to, tok the token being built, quoted whether the token
\* has met a quote, out the tokens emitted so far.
ShlexFail == [ok |-> FALSE, tokens |-> <<>>]
IsQuote(c) == c \in {"\"", "'"}

RECURSIVE ShlexScan(_, _, _, _, _, _, _)
ShlexScan(s, i, st, esc, tok, quoted, out) ==
  IF i > Len(s)
  THEN IF IsQuote(st) \/ st = "\\"
       THEN ShlexFail
       ELSE [ok |-> TRUE,
             tokens |-> IF tok # <<>> \/ quoted THEN Append(out, tok) ELSE out]
  ELSE LET c == s[i] IN
    CASE st = "ws" ->
           IF IsSpace(c) THEN ShlexScan(s, i + 1, "ws", esc, <<>>, FALSE, out)
           ELSE IF c = "\\" THEN ShlexScan(s, i + 1, "\\", "a", tok, quoted, out)
           ELSE IF IsQuote(c) THEN ShlexScan(s, i + 1, c, esc, tok, quoted, out)
           ELSE ShlexScan(s, i + 1, "a", esc, <<c>>, quoted, out)
      [] IsQuote(st) ->
           IF c = st THEN ShlexScan(s, i + 1, "a", esc, tok, TRUE, out)
           ELSE IF c = "\\" /\ st = "\""
             THEN ShlexScan(s, i + 1, "\\", st, tok, TRUE, out)
           ELSE ShlexScan(s, i + 1, st, esc, Append(tok, c), TRUE, out)
      [] st = "\\" ->
           IF IsQuote(esc) /\ c # "\\" /\ c # esc
           THEN ShlexScan(s, i + 1, esc, esc, tok \o <<"\\", c>>, quoted, out)
           ELSE ShlexScan(s, i + 1, esc, esc, Append(tok, c), quoted, out)
      [] OTHER ->
           IF IsSpace(c)
           THEN ShlexScan(s, i + 1, "ws", esc, <<>>, FALSE, Append(out, tok))
           ELSE IF IsQuote(c) THEN ShlexScan(s, i + 1, c, esc, tok, quoted, out)
           ELSE IF c = "\\" THEN ShlexScan(s, i + 1, "\\", "a", tok, quoted, out)
           ELSE ShlexScan(s, i + 1, "a", esc, Append(tok, c), quoted, out)

shlex_split(s) == ShlexScan(s, 1, "ws", "ws", <<>>, FALSE, <<>>)

\* ------------------------------------------------------------------ int(x)
RECURSIVE DigitsVal(_, _)
DigitsVal(s, acc) ==
  IF s = <<>> THEN acc ELSE DigitsVal(Tail(s), acc * 10 + DigitVal(Head(s)))
AllDigits(s) == s # <<>> /\ \A i \in 1..Len(s) : IsDigit(s[i])

int(s) ==
  LET t == Strip(s)
      signed == t # <<>> /\ t[1] \in {"+", "-"}
      d == IF signed THEN Tail(t) ELSE t
  IN IF AllDigits(d)
     THEN [ok |-> TRUE,
           val |-> IF signed /\ t[1] = "-" THEN 0 - DigitsVal(d, 0)
                   ELSE DigitsVal(d, 0)]
     ELSE [ok |-> FALSE, val |-> 0]

\* ---------------------------------------------------------- parse_file_line
\* FILE_RE = ^\s*FILE\s+(?:"([^"]+)"|(\S+))\s+\S+ , ignoring case, matched at
\* the start of the raw line.  FileTail holds of the text after the path: at
\* least one blank, then at least one non-blank.
RECURSIVE TakeWhileNot(_, _)
TakeWhileNot(s, stop) ==
  IF s = <<>> \/ Head(s) \in stop THEN <<>>
  ELSE <<Head(s)>> \o TakeWhileNot(Tail(s), stop)
Drop(s, n) == SubSeq(s, n + 1, Len(s))

FileTail(s) == s # <<>> /\ IsSpace(Head(s)) /\ LStrip(s) # <<>>

parse_file_line(line) ==
  LET s1 == LStrip(line)
      kw == StartsWith(Upper(s1), <<"F", "I", "L", "E">>)
      r == IF kw THEN Drop(s1, 4) ELSE <<>>
      r2 == LStrip(r)
      gap == r # <<>> /\ IsSpace(Head(r)) /\ r2 # <<>>
      inner == IF gap /\ Head(r2) = "\"" THEN TakeWhileNot(Tail(r2), {"\""})
               ELSE <<>>
      quotedOk == /\ gap /\ Head(r2) = "\"" /\ inner # <<>>
                  /\ Len(r2) >= Len(inner) + 2
                  /\ FileTail(Drop(r2, Len(inner) + 2))
      bare == IF gap THEN TakeWhileNot(r2, {" ", "\t"}) ELSE <<>>
      bareOk == gap /\ FileTail(Drop(r2, Len(bare)))
  IN IF quotedOk THEN [ok |-> TRUE, path |-> inner]
     ELSE IF bareOk THEN [ok |-> TRUE, path |-> bare]
     ELSE [ok |-> FALSE, path |-> <<>>]

\* ----------------------------------------------------------- parse_timecode
\* TIME_RE = ^(\d+):(\d{2}):(\d{2})$ .  The result is the Fraction
\* minutes*60 + seconds + frames/75, held as its numerator over 75.
FramesPerSecond == 75

\* parse_timecode letting 75 frames through.
parse_timecode_frames_to_75(value) ==
  LET n == Len(value)
      shape == /\ n >= 7
               /\ value[n - 5] = ":" /\ value[n - 2] = ":"
               /\ AllDigits(SubSeq(value, 1, n - 6))
               /\ AllDigits(SubSeq(value, n - 4, n - 3))
               /\ AllDigits(SubSeq(value, n - 1, n))
      minutes == DigitsVal(SubSeq(value, 1, n - 6), 0)
      seconds == DigitsVal(SubSeq(value, n - 4, n - 3), 0)
      frames == DigitsVal(SubSeq(value, n - 1, n), 0)
  IN IF ~shape THEN [kind |-> "FormatError", val |-> 0]
     ELSE IF seconds >= 60 THEN [kind |-> "RangeError", val |-> 0]
     ELSE IF frames > 75 THEN [kind |-> "RangeError", val |-> 0]
     ELSE [kind |-> "ok",
           val |-> (minutes * 60 + seconds) * FramesPerSecond + frames]

\* parse_timecode dropping the frames.
parse_timecode_whole_seconds(value) ==
  LET n == Len(value)
      shape == /\ n >= 7
               /\ value[n - 5] = ":" /\ value[n - 2] = ":"
               /\ AllDigits(SubSeq(value, 1, n - 6))
               /\ AllDigits(SubSeq(value, n - 4, n - 3))
               /\ AllDigits(SubSeq(value, n - 1, n))
      minutes == DigitsVal(SubSeq(value, 1, n - 6), 0)
      seconds == DigitsVal(SubSeq(value, n - 4, n - 3), 0)
      frames == DigitsVal(SubSeq(value, n - 1, n), 0)
  IN IF ~shape THEN [kind |-> "FormatError", val |-> 0]
     ELSE IF seconds >= 60 THEN [kind |-> "RangeError", val |-> 0]
     ELSE IF frames >= 75 THEN [kind |-> "RangeError", val |-> 0]
     ELSE [kind |-> "ok",
           val |-> (minutes * 60 + seconds) * FramesPerSecond]

parse_timecode(value) ==
  LET n == Len(value)
      shape == /\ n >= 7
               /\ value[n - 5] = ":" /\ value[n - 2] = ":"
               /\ AllDigits(SubSeq(value, 1, n - 6))
               /\ AllDigits(SubSeq(value, n - 4, n - 3))
               /\ AllDigits(SubSeq(value, n - 1, n))
      minutes == DigitsVal(SubSeq(value, 1, n - 6), 0)
      seconds == DigitsVal(SubSeq(value, n - 4, n - 3), 0)
      frames == DigitsVal(SubSeq(value, n - 1, n), 0)
  IN IF ~shape THEN [kind |-> "FormatError", val |-> 0]
     ELSE IF seconds >= 60 THEN [kind |-> "RangeError", val |-> 0]
     ELSE IF frames >= 75 THEN [kind |-> "RangeError", val |-> 0]
     ELSE [kind |-> "ok",
           val |-> (minutes * 60 + seconds) * FramesPerSecond + frames]

\* -------------------------------------------------------- sanitize_filename
WINDOWS_RESERVED == {"<", ">", ":", "\"", "/", "\\", "|", "?", "*"}

\* ReplaceDots replacing nothing.
KeepDots(s) == s

RECURSIVE ReplaceDots(_)
ReplaceDots(s) ==
  IF Len(s) >= 2 /\ s[1] = "." /\ s[2] = "."
  THEN <<"_", "_">> \o ReplaceDots(Drop(s, 2))
  ELSE IF s = <<>> THEN <<>>
  ELSE <<Head(s)>> \o ReplaceDots(Tail(s))

sanitize_filename(value) ==
  LET cleaned == [i \in 1..Len(value) |->
                    IF value[i] \in WINDOWS_RESERVED THEN "_" ELSE value[i]]
      trimmed == Strip(ReplaceDots(cleaned))
  IN IF trimmed = <<>> THEN S_Untitled ELSE trimmed

\* ------------------------------------------------------------ f"{n:02d}"
RECURSIVE Digits(_)
Digits(n) ==
  IF n < 10 THEN <<DigitChars[n + 1]>>
  ELSE Append(Digits(n \div 10), DigitChars[(n % 10) + 1])
str(n) == IF n < 0 THEN <<"-">> \o Digits(0 - n) ELSE Digits(n)
Format02d(n) == IF 0 <= n /\ n < 10 THEN <<"0">> \o Digits(n) ELSE str(n)

\* ------------------------------------------------------- Path.suffix.lower()
RECURSIVE LastIndexOf(_, _)
LastIndexOf(s, c) ==
  IF s = <<>> THEN 0
  ELSE IF s[Len(s)] = c THEN Len(s)
  ELSE LastIndexOf(SubSeq(s, 1, Len(s) - 1), c)

suffix(path) ==
  LET name == Drop(path, LastIndexOf(path, "/"))
      dot == LastIndexOf(name, ".")
  IN IF dot > 1 /\ dot < Len(name) THEN Lower(Drop(name, dot - 1)) ELSE <<>>

S_DotWav == <<".", "w", "a", "v">>
S_DotWave == <<".", "w", "a", "v", "e">>

\* Python truthiness of an Optional[str]: set and not the empty string.
Truthy(x) == ~IsNone(x) /\ Get(x) # <<>>

\* ===================================================================== state
VARIABLES
  plain_text,       \* the CUE text holds plain lines only (and may be longer)
  pc,               \* "start", "lines" (parse_cue's loop), "split" (the loop of
                    \* split_files), "done" (returned) or "error" (raised)
  err,              \* the exception raised: None or Some([kind, line])
  line_num,         \* number of the line last read (enumerate(..., start=1))
  raw_line,         \* the line last read
  eof,              \* the line loop has run out of lines
  file_entries,     \* List[FileEntry]: records [path, tracks]
  current_file,     \* index into file_entries of the open FileEntry, 0 = None
  current_track,    \* index into its tracks of the open Track, 0 = None
  album_title,      \* Optional[str]
  album_performer,  \* Optional[str]
  tag_output,       \* argument of split_files
  fix_streaminfo,   \* argument of split_files
  file_index,       \* 1-based position of the outer loop of split_files
  index,            \* 0-based position of its inner loop
  written,          \* counter of completed run_ffmpeg calls
  tags_used,        \* set of tag names used
  items,            \* the argument lists run_ffmpeg has been called with
  created,          \* output file names written by this run
  ffmpeg_runs,      \* number of times the transcoder has been invoked
  values,           \* the argument texts of the calls of a pure function
  results           \* what the calls made so far have returned or raised

readVars == <<line_num, raw_line, eof>>
sheetVars == <<file_entries, current_file, current_track, album_title,
               album_performer>>
argVars == <<tag_output, fix_streaminfo>>
loopVars == <<file_index, index, written, tags_used, items, created,
              ffmpeg_runs>>
callVars == <<values, results>>
vars == <<pc, err, plain_text, readVars, sheetVars, argVars, loopVars,
          callVars>>

\* The lines a CUE text is drawn from.
CueLines ==
  { L_FileA, L_FileB, L_FileBad,
    L_Track1, L_Track2, L_TrackBare, L_TrackNaN,
    L_TitleTest, L_TitleHello, L_TitleA, L_TitleB, L_TitleBare, L_TitleEmpty,
    L_TitleOpen,
    L_PerfP, L_PerfQ, L_PerfBare,
    L_Index0, L_Index1, L_Pregap, L_IndexRange, L_IndexShort, L_IndexBadTc,
    L_Rem, L_Blank }

Track(number) ==
  [number |-> number, title |-> None, performer |-> None, start |-> None]
FileEntry(path) == [path |-> path, tracks |-> <<>>]

\* Which branch of the loop body of parse_cue takes the line.
Keyword(raw) ==
  LET line == Strip(raw) IN
    IF line = <<>> \/ StartsWith(line, K_REM) THEN "skip"
    ELSE IF StartsWith(Upper(line), K_FILE) THEN "FILE"
    ELSE IF StartsWith(Upper(line), K_TRACK) THEN "TRACK"
    ELSE IF StartsWith(Upper(line), K_TITLE) THEN "TITLE"
    ELSE IF StartsWith(Upper(line), K_PERFORMER) THEN "PERFORMER"
    ELSE IF StartsWith(Upper(line), K_INDEX) THEN "INDEX"
    ELSE "none"

\* Raise that records the error and lets the loop go on.
RaiseAndGoOn(kind, ln) ==
  pc' = pc /\ err' = Some([kind |-> kind, line |-> ln])

Raise(kind, ln) == pc' = "error" /\ err' = Some([kind |-> kind, line |-> ln])
Continue == pc' = pc /\ err' = err

\* The plain lines: well-formed lines, enough for a sheet of titled tracks.
PlainLines == {L_FileA, L_Track1, L_Track2, L_TitleA, L_Index1}

\* Each line of CueLines with the branch that takes it, its tokens and its
\* FILE match, worked out once: ReadLines(k) is the set of lines the text may
\* hold that a branch of k takes.
LineTable ==
  { [raw |-> raw, keyword |-> Keyword(raw), tokens |-> shlex_split(Strip(raw)),
     file |-> parse_file_line(raw)] : raw \in CueLines }
ReadLines(k) ==
  { l \in LineTable : l.keyword \in k /\ (plain_text => l.raw \in PlainLines) }

\* The loop header: the next line of the text is read and numbered.
Read(raw) ==
  /\ pc = "lines" /\ ~eof
  /\ line_num < (IF plain_text THEN MaxPlainLines ELSE MaxLines)
  /\ line_num' = line_num + 1
  /\ raw_line' = raw
  /\ eof' = eof
  /\ UNCHANGED <<plain_text, argVars, loopVars, callVars>>

Init ==
  /\ pc = "start" /\ err = None
  /\ plain_text \in BOOLEAN
  /\ line_num = 0 /\ raw_line = <<>> /\ eof = FALSE
  /\ file_entries = <<>> /\ current_file = 0 /\ current_track = 0
  /\ album_title = None /\ album_performer = None
  /\ tag_output \in BOOLEAN /\ fix_streaminfo \in BOOLEAN
  /\ file_index = 0 /\ index = 0 /\ written = 0
  /\ tags_used = {} /\ items = <<>> /\ created = {} /\ ffmpeg_runs = 0
  /\ values = <<>> /\ results = <<>>

\* split_files up to its call of parse_cue: ffmpeg must be on the PATH.
Start ==
  /\ pc = "start"
  /\ \E found \in BOOLEAN :
       IF found THEN pc' = "lines" /\ err' = err
       ELSE Raise("FfmpegMissing", 0)
  /\ UNCHANGED <<plain_text, readVars, sheetVars, argVars, loopVars, callVars>>

\* A blank line, a REM line, or a line no branch takes.
SkipLine ==
  \E l \in ReadLines({"skip", "none"}) :
    /\ Read(l.raw)
    /\ Continue
    /\ UNCHANGED sheetVars

\* FileLine leaving the open track open: the new entry is appended, and the
\* track that was open stays the one later lines write to.
FileLineKeepTrack ==
  \E l \in ReadLines({"FILE"}), exists \in BOOLEAN :
    /\ Read(l.raw)
    /\ LET m == l.file IN
         IF ~m.ok
         THEN Raise("FormatError", line_num') /\ UNCHANGED sheetVars
         ELSE IF ~exists
         THEN Raise("NotFoundError", line_num') /\ UNCHANGED sheetVars
         ELSE /\ Continue
              /\ file_entries' = Append(file_entries, FileEntry(m.path))
              /\ current_file' =
                   IF current_track = 0 THEN Len(file_entries) + 1
                   ELSE current_file
              /\ current_track' = current_track
              /\ UNCHANGED <<album_title, album_performer>>

FileLine ==
  \E l \in ReadLines({"FILE"}), exists \in BOOLEAN :
    /\ Read(l.raw)
    /\ LET m == l.file IN
         IF ~m.ok
         THEN Raise("FormatError", line_num') /\ UNCHANGED sheetVars
         ELSE IF ~exists
         THEN Raise("NotFoundError", line_num') /\ UNCHANGED sheetVars
         ELSE /\ Continue
              /\ file_entries' = Append(file_entries, FileEntry(m.path))
              /\ current_file' = Len(file_entries) + 1
              /\ current_track' = 0
              /\ UNCHANGED <<album_title, album_performer>>

\* The message of a tokenizer error carries no line number.
ErrorLine(kind, ln) == IF kind = "TokenizeError" THEN 0 ELSE ln

\* The checks of the TRACK branch in the order the code makes them: "ok" or
\* the error raised.
track_check(t) ==
  IF current_file = 0 THEN "SequenceError"
  ELSE IF ~t.ok THEN "TokenizeError"
  ELSE IF Len(t.tokens) < 2 THEN "FormatError"
  ELSE IF ~int(t.tokens[2]).ok THEN "FormatError"
  ELSE "ok"

TrackLine ==
  \E l \in ReadLines({"TRACK"}) :
    /\ Read(l.raw)
    /\ LET chk == track_check(l.tokens) IN
         IF chk # "ok"
         THEN Raise(chk, ErrorLine(chk, line_num')) /\ UNCHANGED sheetVars
         ELSE /\ Continue
              /\ file_entries' =
                   [file_entries EXCEPT ![current_file].tracks =
                      Append(@, Track(int(l.tokens.tokens[2]).val))]
              /\ current_track' = Len(file_entries[current_file].tracks) + 1
              /\ UNCHANGED <<current_file, album_title, album_performer>>

\* The checks of the TITLE and PERFORMER branches.
text_check(t) ==
  IF ~t.ok THEN "TokenizeError"
  ELSE IF Len(t.tokens) < 2 THEN "FormatError"
  ELSE "ok"

\* first_wins overwriting the field on every occurrence.
last_wins(old, new) == Some(new)

\* An album-level field is set by its first occurrence only.
first_wins(old, new) == IF IsNone(old) THEN Some(new) ELSE old

TitleLine ==
  \E l \in ReadLines({"TITLE"}) :
    /\ Read(l.raw)
    /\ LET chk == text_check(l.tokens) IN
         IF chk # "ok"
         THEN Raise(chk, ErrorLine(chk, line_num')) /\ UNCHANGED sheetVars
         ELSE /\ Continue
              /\ IF current_track = 0
                 THEN /\ album_title' =
                           first_wins(album_title, l.tokens.tokens[2])
                      /\ UNCHANGED file_entries
                 ELSE /\ file_entries' =
                           [file_entries EXCEPT
                              ![current_file].tracks[current_track].title =
                                Some(l.tokens.tokens[2])]
                      /\ UNCHANGED album_title
              /\ UNCHANGED <<current_file, current_track, album_performer>>

PerformerLine ==
  \E l \in ReadLines({"PERFORMER"}) :
    /\ Read(l.raw)
    /\ LET chk == text_check(l.tokens) IN
         IF chk # "ok"
         THEN Raise(chk, ErrorLine(chk, line_num')) /\ UNCHANGED sheetVars
         ELSE /\ Continue
              /\ IF current_track = 0
                 THEN /\ album_performer' =
                           first_wins(album_performer, l.tokens.tokens[2])
                      /\ UNCHANGED file_entries
                 ELSE /\ file_entries' =
                           [file_entries EXCEPT
                              ![current_file].tracks[current_track].performer =
                                Some(l.tokens.tokens[2])]
                      /\ UNCHANGED album_performer
              /\ UNCHANGED <<current_file, current_track, album_title>>

S_01 == <<"0", "1">>

\* index_check without the check of a start already set.
index_check_overwrite(t) ==
  IF current_track = 0 THEN "SequenceError"
  ELSE IF ~t.ok THEN "TokenizeError"
  ELSE IF Len(t.tokens) < 3 THEN "FormatError"
  ELSE IF t.tokens[2] # S_01 THEN "ignore"
  ELSE parse_timecode(t.tokens[3]).kind

\* index_check skipping an index other than 01 before it looks for the track.
index_check_skip_first(t) ==
  IF ~t.ok THEN "TokenizeError"
  ELSE IF Len(t.tokens) < 3 THEN "FormatError"
  ELSE IF t.tokens[2] # S_01 THEN "ignore"
  ELSE IF current_track = 0 THEN "SequenceError"
  ELSE IF ~IsNone(file_entries[current_file].tracks[current_track].start)
    THEN "DuplicateError"
  ELSE parse_timecode(t.tokens[3]).kind

\* index_check taking every index number for 01.
index_check_any_number(t) ==
  IF current_track = 0 THEN "SequenceError"
  ELSE IF ~t.ok THEN "TokenizeError"
  ELSE IF Len(t.tokens) < 3 THEN "FormatError"
  ELSE IF ~IsNone(file_entries[current_file].tracks[current_track].start)
    THEN "DuplicateError"
  ELSE parse_timecode(t.tokens[3]).kind

\* The checks of the INDEX branch in the order the code makes them: "ok" (the
\* start is set), "ignore" (not INDEX 01) or the error raised.
index_check(t) ==
  IF current_track = 0 THEN "SequenceError"
  ELSE IF ~t.ok THEN "TokenizeError"
  ELSE IF Len(t.tokens) < 3 THEN "FormatError"
  ELSE IF t.tokens[2] # S_01 THEN "ignore"
  ELSE IF ~IsNone(file_entries[current_file].tracks[current_track].start)
    THEN "DuplicateError"
  ELSE parse_timecode(t.tokens[3]).kind

IndexLine ==
  \E l \in ReadLines({"INDEX"}) :
    /\ Read(l.raw)
    /\ LET chk == index_check(l.tokens) IN
         IF chk = "ignore"
         THEN Continue /\ UNCHANGED sheetVars
         ELSE IF chk # "ok"
         THEN Raise(chk, ErrorLine(chk, line_num')) /\ UNCHANGED sheetVars
         ELSE /\ Continue
              /\ file_entries' =
                   [file_entries EXCEPT
                      ![current_file].tracks[current_track].start =
                        Some(parse_timecode(l.tokens.tokens[3]).val)]
              /\ UNCHANGED <<current_file, current_track, album_title,
                             album_performer>>

\* ------------------------------------------- parse_cue after the line loop
\* ValidateTracks without the check of the start.
RECURSIVE ValidateTracksNoStart(_)
ValidateTracksNoStart(tracks) ==
  IF tracks = <<>> THEN "ok"
  ELSE IF IsNone(Head(tracks).title) THEN "MissingTitleError"
  ELSE ValidateTracksNoStart(Tail(tracks))

\* ValidateTracks without the check of the title.
RECURSIVE ValidateTracksNoTitle(_)
ValidateTracksNoTitle(tracks) ==
  IF tracks = <<>> THEN "ok"
  ELSE IF IsNone(Head(tracks).start) THEN "MissingIndexError"
  ELSE ValidateTracksNoTitle(Tail(tracks))

RECURSIVE ValidateTracks(_)
ValidateTracks(tracks) ==
  IF tracks = <<>> THEN "ok"
  ELSE IF IsNone(Head(tracks).title) THEN "MissingTitleError"
  ELSE IF IsNone(Head(tracks).start) THEN "MissingIndexError"
  ELSE ValidateTracks(Tail(tracks))

RECURSIVE ValidateEntries(_)
ValidateEntries(entries) ==
  IF entries = <<>> THEN "ok"
  ELSE IF Head(entries).tracks = <<>> THEN "EmptyFileError"
  ELSE IF ValidateTracks(Head(entries).tracks) # "ok"
    THEN ValidateTracks(Head(entries).tracks)
  ELSE ValidateEntries(Tail(entries))

Validate(entries) ==
  IF entries = <<>> THEN "EmptySheetError" ELSE ValidateEntries(entries)

\* The line loop ends; the sheet is validated and returned to split_files,
\* whose loops start at the first track of the first file.
EndOfLines ==
  /\ pc = "lines" /\ ~eof
  /\ eof' = TRUE
  /\ IF Validate(file_entries) # "ok"
     THEN Raise(Validate(file_entries), 0) /\ UNCHANGED <<file_index, index>>
     ELSE pc' = "split" /\ err' = err /\ file_index' = 1 /\ index' = 0
  /\ UNCHANGED <<plain_text, line_num, raw_line, sheetVars, argVars, written,
                 tags_used, items, created, ffmpeg_runs, callVars>>

\* ------------------------------------------------------------- split_files
RECURSIVE Flatten(_)
Flatten(entries) ==
  IF entries = <<>> THEN <<>>
  ELSE Head(entries).tracks \o Flatten(Tail(entries))

track_numbers == [i \in 1..Len(Flatten(file_entries)) |->
                    Flatten(file_entries)[i].number]
total_tracks == Len(Flatten(file_entries))

\* AllIncreasing comparing with <= .
AllNonDecreasing(nums) ==
  \A i \in 1..(Len(nums) - 1) : nums[i] <= nums[i + 1]

AllIncreasing(nums) == \A i \in 1..(Len(nums) - 1) : nums[i] < nums[i + 1]
monotonic == AllIncreasing(track_numbers)

\* end_time taking the next track of the sheet, whichever file it is in.
end_time_any_file(entry, idx) ==
  IF idx + 1 < Len(entry.tracks) THEN entry.tracks[idx + 2].start
  ELSE IF file_index < Len(file_entries)
    THEN file_entries[file_index + 1].tracks[1].start
  ELSE None

end_time(entry, idx) ==
  IF idx + 1 < Len(entry.tracks) THEN entry.tracks[idx + 2].start ELSE None

track_label(fidx, track) ==
  IF monotonic THEN Format02d(track.number)
  ELSE Format02d(fidx) \o <<"-">> \o Format02d(track.number)

StrOrEmpty(x) == IF Truthy(x) THEN Get(x) ELSE <<>>

output_name(fidx, track) ==
  track_label(fidx, track) \o S_Sep
    \o sanitize_filename(StrOrEmpty(track.title)) \o S_Flac

performer(track) ==
  IF Truthy(track.performer) THEN track.performer ELSE album_performer

metadata(track) ==
  LET keys == IF ~tag_output THEN {}
              ELSE {"TRACKNUMBER", "TITLE"}
                   \cup (IF Truthy(album_title) THEN {"ALBUM"} ELSE {})
                   \cup (IF Truthy(performer(track))
                         THEN {"ARTIST", "ALBUMARTIST"} ELSE {})
  IN [k \in keys |->
        CASE k = "TRACKNUMBER" -> str(track.number)
          [] k = "TITLE" -> StrOrEmpty(track.title)
          [] k = "ALBUM" -> Get(album_title)
          [] OTHER -> Get(performer(track))]

\* output_exists seeing only the files that were there before the run.
output_exists_before_run(name, pre_exists) == pre_exists

\* run_ffmpeg's first check: the output path exists, written earlier in this
\* run or there before it.
output_exists(name, pre_exists) == name \in created \/ pre_exists

\* One iteration of the inner loop: the work item of the track at
\* (file_index, index) is built and handed to run_ffmpeg, which refuses an
\* existing output file, then an unsupported input suffix, and otherwise runs
\* the transcoder, which may fail.
SplitTrack ==
  /\ pc = "split"
  /\ LET entry == file_entries[file_index]
         track == entry.tracks[index + 1]
         name == output_name(file_index, track)
         item == [input_path |-> entry.path, output_name |-> name,
                  start |-> track.start, end |-> end_time(entry, index),
                  metadata |-> metadata(track),
                  fix_streaminfo |-> fix_streaminfo]
     IN
       /\ items' = Append(items, item)
       /\ tags_used' = tags_used \cup DOMAIN metadata(track)
       /\ \E pre_exists \in BOOLEAN, ffmpeg_ok \in BOOLEAN :
            IF output_exists(name, pre_exists)
            THEN /\ Raise("FileExistsError", 0)
                 /\ UNCHANGED <<file_index, index, written, created,
                                ffmpeg_runs>>
            ELSE IF suffix(entry.path) \notin {S_DotWav, S_DotWave, S_Flac}
            THEN /\ Raise("UnsupportedFormat", 0)
                 /\ UNCHANGED <<file_index, index, written, created,
                                ffmpeg_runs>>
            ELSE IF ~ffmpeg_ok
            THEN /\ Raise("CalledProcessError", 0)
                 /\ ffmpeg_runs' = ffmpeg_runs + 1
                 /\ UNCHANGED <<file_index, index, written, created>>
            ELSE /\ created' = created \cup {name}
                 /\ ffmpeg_runs' = ffmpeg_runs + 1
                 /\ written' = written + 1
                 /\ err' = err
                 /\ IF index + 1 < Len(entry.tracks)
                    THEN pc' = pc /\ index' = index + 1
                         /\ file_index' = file_index
                    ELSE IF file_index < Len(file_entries)
                    THEN pc' = pc /\ index' = 0
                         /\ file_index' = file_index + 1
                    ELSE pc' = "done" /\ UNCHANGED <<file_index, index>>
  /\ UNCHANGED <<plain_text, readVars, sheetVars, argVars, callVars>>

Next ==
  \/ Start
  \/ SkipLine
  \/ FileLine
  \/ TrackLine
  \/ TitleLine
  \/ PerformerLine
  \/ IndexLine
  \/ EndOfLines
  \/ SplitTrack

Spec == Init /\ [][Next]_vars

TypeOK ==
  /\ pc \in {"start", "lines", "split", "call", "done", "error"}
  /\ line_num \in 0..(IF plain_text THEN MaxPlainLines ELSE MaxLines)
  /\ current_file \in 0..Len(file_entries)
  /\ written \in 0..Len(items)

\* ----------------------------------------------- split_files on drawn sheets
\* The loop of split_files started on a sheet parse_cue has returned: every
\* file has a track, every track a title and a start.  NumberSheets varies
\* the track numbers and start times over sheets of one or two files of one
\* or two tracks (PlanShapes: the numbers of tracks of the files), PathSheets
\* varies the input file, and the two examples are two files of two tracks
\* numbered 1,2,3,4 and 1,2,1,2.
P_AFlac == <<"a", ".", "f", "l", "a", "c">>
P_BMp3 == <<"b", ".", "m", "p", "3">>
P_CWav == <<"c", ".", "W", "A", "V">>
T_A == <<"A">>

PlanStarts == {0, 75}
PlanTrack(n, s) ==
  [number |-> n, title |-> Some(T_A), performer |-> None, start |-> Some(s)]
PlanTracks == { PlanTrack(n, s) : n \in 1..MaxTrackNo, s \in PlanStarts }
PlanShapes == {<<1>>, <<2>>, <<1, 1>>, <<1, 2>>, <<2, 1>>, <<2, 2>>}
RECURSIVE SumSeq(_)
SumSeq(s) == IF s = <<>> THEN 0 ELSE Head(s) + SumSeq(Tail(s))
PlanSheet(shape, tracks) ==
  IF Len(shape) = 1 THEN <<[path |-> P_AFlac, tracks |-> tracks]>>
  ELSE <<[path |-> P_AFlac, tracks |-> SubSeq(tracks, 1, shape[1])],
         [path |-> P_AFlac,
          tracks |-> SubSeq(tracks, shape[1] + 1, Len(tracks))]>>
NumberSheets ==
  UNION { { PlanSheet(shape, tracks) :
              tracks \in [1..SumSeq(shape) -> PlanTracks] } :
          shape \in PlanShapes }
PathSheets ==
  { <<[path |-> pth, tracks |-> <<PlanTrack(1, 0)>>]>> :
      pth \in {P_AFlac, P_BMp3, P_CWav} }
Example1234 ==
  << [path |-> P_AFlac, tracks |-> <<PlanTrack(1, 0), PlanTrack(2, 75)>>],
     [path |-> P_CWav, tracks |-> <<PlanTrack(3, 0), PlanTrack(4, 75)>>] >>
Example1212 ==
  << [path |-> P_AFlac, tracks |-> <<PlanTrack(1, 0), PlanTrack(2, 75)>>],
     [path |-> P_CWav, tracks |-> <<PlanTrack(1, 0), PlanTrack(2, 75)>>] >>
PlanSheets == NumberSheets \cup PathSheets \cup {Example1234, Example1212}

InitPlan ==
  /\ pc = "split" /\ err = None
  /\ plain_text = FALSE
  /\ line_num = 0 /\ raw_line = <<>> /\ eof = TRUE
  /\ file_entries \in PlanSheets /\ current_file = 0 /\ current_track = 0
  /\ album_title = None /\ album_performer = None
  /\ tag_output \in BOOLEAN /\ fix_streaminfo \in BOOLEAN
  /\ file_index = 1 /\ index = 0 /\ written = 0
  /\ tags_used = {} /\ items = <<>> /\ created = {} /\ ffmpeg_runs = 0
  /\ values = <<>> /\ results = <<>>

NextPlan == SplitTrack

SpecPlan == InitPlan /\ [][NextPlan]_vars

\* ------------------------------------------- the pure functions called alone
\* parse_timecode and sanitize_filename called on drawn texts: values holds
\* the argument of each call to make, results what the calls made so far
\* have given.
MaxPad == 1            \* leading zeros put before the minutes of a timecode
MaxNameLen == 4        \* length of the names drawn over SanitizeChars

TC_Short == <<"0", ":", "0", ":", "0">>
TC_Alpha == <<"a", "0", ":", "0", "0", ":", "0", "0">>
TC_Max == <<"1", "0", ":", "5", "9", ":", "7", "4">>
TC_Sec60 == <<"0", "0", ":", "6", "0", ":", "0", "0">>
TC_Frm75 == <<"0", "0", ":", "0", "0", ":", "7", "5">>
TC_Zero1 == <<"0", ":", "0", "0", ":", "0", "0">>
TC_Zero2 == <<"0", "0", ":", "0", "0", ":", "0", "0">>
N_He == <<"H", "e", ":", " ", "A", "/", "B", "?", ".", "f", "l", "a", "c">>
N_HeClean == <<"H", "e", "_", " ", "A", "_", "B", "_", ".", "f", "l", "a", "c">>
N_Etc == <<".", ".", "/", ".", ".", "/", "e", "t", "c">>
N_EtcClean == <<"_", "_", "_", "_", "_", "_", "e", "t", "c">>
N_Blank == <<" ", " ", " ">>
N_Tabs == <<"\t", "a", " ", "b", "\t">>

\* The texts minutes:seconds:frames of the drawn numbers, the minutes with up
\* to MaxPad leading zeros, and two texts TIME_RE does not match.
MinutesDrawn == {0, 1, 10}
SecondsDrawn == {0, 59, 60}
FramesDrawn == {0, 74, 75}
Zeros(p) == [i \in 1..p |-> "0"]
TimecodeText(m, p, s, f) ==
  Zeros(p) \o str(m) \o <<":">> \o Format02d(s) \o <<":">> \o Format02d(f)
TimecodeTexts ==
  { TimecodeText(m, p, s, f) :
      m \in MinutesDrawn, p \in 0..MaxPad, s \in SecondsDrawn, f \in FramesDrawn }
    \cup {TC_Short, TC_Alpha}

\* The names: every text over SanitizeChars up to MaxNameLen, each reserved
\* character between two letters, and the examples.
SanitizeChars == {"a", ".", " ", "/"}
SeqsUpTo(S, n) == UNION { [1..k -> S] : k \in 0..n }
ReservedNames == { <<"a", c, "b">> : c \in WINDOWS_RESERVED }
SanitizeTexts ==
  SeqsUpTo(SanitizeChars, MaxNameLen) \cup ReservedNames
    \cup {N_He, N_Etc, N_Blank, N_Tabs, S_Untitled}

InitCall ==
  /\ pc = "call" /\ err = None
  /\ plain_text = FALSE
  /\ line_num = 0 /\ raw_line = <<>> /\ eof = FALSE
  /\ file_entries = <<>> /\ current_file = 0 /\ current_track = 0
  /\ album_title = None /\ album_performer = None
  /\ tag_output = FALSE /\ fix_streaminfo = FALSE
  /\ file_index = 0 /\ index = 0 /\ written = 0
  /\ tags_used = {} /\ items = <<>> /\ created = {} /\ ffmpeg_runs = 0
  /\ results = <<>>

\* The argument of the next call to make; the call is made and its outcome
\* kept.
NextValue == values[Len(results) + 1]
Call(outcome) ==
  /\ pc = "call"
  /\ results' = Append(results, outcome)
  /\ pc' = IF Len(results) + 1 = Len(values) THEN "done" ELSE "call"
  /\ UNCHANGED <<err, plain_text, readVars, sheetVars, argVars, loopVars,
                 values>>

InitTimecode ==
  /\ InitCall
  /\ values \in { <<a, b>> : a \in TimecodeTexts, b \in TimecodeTexts }
ParseTimecode == Call(parse_timecode(NextValue))
SpecTimecode == InitTimecode /\ [][ParseTimecode]_vars

InitSanitize ==
  /\ InitCall
  /\ values \in { <<t>> : t \in SanitizeTexts }
SanitizeFilename == Call(sanitize_filename(NextValue))
SpecSanitize == InitSanitize /\ [][SanitizeFilename]_vars

\* ==================================================================== claims
SplitErrors == {"FileExistsError", "UnsupportedFormat", "CalledProcessError"}
ValidationErrors ==
  {"EmptySheetError", "EmptyFileError", "MissingTitleError", "MissingIndexError"}

\* parse_cue has returned its sheet to split_files.
Returned ==
  pc \in {"split", "done"} \/ (pc = "error" /\ Get(err).kind \in SplitErrors)

OpenTrack == file_entries[current_file].tracks[current_track]

\* The tracks of the sheet in document order, and where the k-th one lies.
Flat == Flatten(file_entries)
TracksBefore(f) == Len(Flatten(SubSeq(file_entries, 1, f - 1)))
FileOf(k) ==
  CHOOSE f \in 1..Len(file_entries) :
    TracksBefore(f) < k /\ k <= TracksBefore(f) + Len(file_entries[f].tracks)
LastInFile(k) ==
  k = TracksBefore(FileOf(k)) + Len(file_entries[FileOf(k)].tracks)

\* C1: a track's TITLE "He said "Hello" today" is parsed to the title
\* He said "Hello" today, the embedded double quotes kept, and TITLE
\* "It's a test" to It's a test.
C1_EmbeddedQuotesKept ==
  (pc = "lines" /\ current_track # 0 /\ raw_line \in {L_TitleHello, L_TitleTest})
    => OpenTrack.title =
         Some(IF raw_line = L_TitleHello THEN T_HelloQuoted ELSE T_Test)

\* C2: a sheet parse_cue returns has a file, every file a track, every track
\* its title and its start; a text whose sheet lacks one of these ends in one
\* of the four validation errors.
WellFormed(entries) ==
  /\ Len(entries) >= 1
  /\ \A f \in 1..Len(entries) :
       /\ Len(entries[f].tracks) >= 1
       /\ \A t \in 1..Len(entries[f].tracks) :
            /\ ~IsNone(entries[f].tracks[t].title)
            /\ ~IsNone(entries[f].tracks[t].start)

C2_ReturnedSheetValid ==
  /\ Returned => WellFormed(file_entries)
  /\ (eof /\ ~WellFormed(file_entries))
       => (pc = "error" /\ Get(err).kind \in ValidationErrors)

C2_Witness ==
  /\ pc = "split" /\ items = <<>>
  /\ Len(file_entries) = 1 /\ Len(file_entries[1].tracks) = 2

\* C3: the calls of run_ffmpeg are made one per track in (file, track) order;
\* the end of each is the start of the next track of the same file, and is
\* absent exactly for the last track of a file; a run that completes has made
\* one call for every track.
C3_OneItemPerTrack ==
  /\ Len(items) <= Len(Flat)
  /\ pc = "done" => Len(items) = Len(Flat)
  /\ \A k \in 1..Len(items) :
       /\ items[k].input_path = file_entries[FileOf(k)].path
       /\ items[k].start = Flat[k].start
       /\ IsNone(items[k].end) <=> LastInFile(k)
       /\ ~LastInFile(k) => items[k].end = Flat[k + 1].start

C3_Witness ==
  /\ pc = "done" /\ Len(file_entries) = 2 /\ Len(items) = 4
  /\ IsNone(items[2].end) /\ ~IsNone(items[3].end)

\* C4: the start times of the items of one file increase strictly, so an
\* item that has an end has start < end.
C4_StartBeforeEnd ==
  \A k \in 1..Len(items) :
    ~IsNone(items[k].end) => Get(items[k].start) < Get(items[k].end)

\* The step reads a line of the text.
ReadsLine == pc = "lines" /\ line_num' = line_num + 1
\* No track is open: no TRACK line has been taken since the last FILE line.
NoOpenTrack ==
  file_entries = <<>> \/ file_entries[Len(file_entries)].tracks = <<>>
SequenceErrorAt(n) == Some([kind |-> "SequenceError", line |-> n])

\* C5: an INDEX 01 line read while the open track has its start set fails
\* with DuplicateError reported at that line, and the start is kept.
Index01Lines == {L_Index0, L_Index1, L_IndexRange, L_IndexBadTc}

C5_DuplicateIndex ==
  [][ (ReadsLine /\ raw_line' \in Index01Lines /\ ~NoOpenTrack
         /\ ~IsNone(OpenTrack.start))
        => /\ pc' = "error"
           /\ err' = Some([kind |-> "DuplicateError", line |-> line_num + 1])
           /\ file_entries' = file_entries ]_vars

C5_Witness ==
  /\ pc = "error" /\ err = Some([kind |-> "DuplicateError", line |-> line_num])
  /\ line_num >= 4 /\ raw_line = L_Index1 /\ OpenTrack.start = Some(0)

\* C6: a TRACK line read before any FILE line fails with SequenceError at
\* that line and creates no track; an INDEX line read while no track is open
\* fails with SequenceError.
TrackLines == {L_Track1, L_Track2, L_TrackNaN}
IndexLines ==
  {L_Index0, L_Index1, L_Pregap, L_IndexRange, L_IndexShort, L_IndexBadTc}

C6_SequenceErrors ==
  [][ ReadsLine =>
        /\ (raw_line' \in TrackLines /\ file_entries = <<>>)
             => /\ pc' = "error" /\ err' = SequenceErrorAt(line_num + 1)
                /\ file_entries' = <<>>
        /\ (raw_line' \in IndexLines /\ NoOpenTrack)
             => /\ pc' = "error" /\ err' = SequenceErrorAt(line_num + 1)
                /\ file_entries' = file_entries ]_vars

C6_Witness ==
  /\ pc = "error" /\ err = SequenceErrorAt(line_num) /\ line_num >= 2
  /\ raw_line = L_Track1 /\ file_entries = <<>>

\* C7: the parser stops at the first error: an error is raised only once,
\* by the line being read, whose number it reports, and nothing is done
\* after it; the validation errors are raised only once the lines have run
\* out, and no line is read after that.
LineErrors == {"FormatError", "SequenceError", "RangeError", "DuplicateError",
               "NotFoundError"}

C7_ErrorState ==
  /\ err # None <=> pc = "error"
  /\ pc = "error" =>
       LET e == Get(err) IN
         /\ e.kind \in ValidationErrors => eof /\ e.line = 0
         /\ e.kind \in LineErrors => ~eof /\ line_num >= 1 /\ e.line = line_num
         /\ e.kind = "TokenizeError" => ~eof /\ line_num >= 1

C7_FailFast ==
  /\ []C7_ErrorState
  /\ [][ pc # "error" /\ (eof => line_num' = line_num) ]_vars

C7_Witness ==
  /\ pc = "error" /\ err = Some([kind |-> "FormatError", line |-> 2])
  /\ line_num = 2 /\ raw_line = L_FileBad /\ ~eof

\* C8: the stem of every output file name is the two-digit track number if
\* the track numbers of the sheet increase strictly from each track to the
\* next, and else the two-digit file index, a hyphen and the two-digit track
\* number; numbers 1,2 then 3,4 give 01..04 and 1,2 then 1,2 give 01-01,
\* 01-02, 02-01, 02-02.
TwoDigits(n) == <<DigitChars[(n \div 10) + 1], DigitChars[(n % 10) + 1]>>
NumbersIncrease ==
  \A i \in 1..(Len(Flat) - 1) : Flat[i].number < Flat[i + 1].number
Stem(k) ==
  IF NumbersIncrease THEN TwoDigits(Flat[k].number)
  ELSE TwoDigits(FileOf(k)) \o <<"-">> \o TwoDigits(Flat[k].number)
Stems1234 == << <<"0", "1">>, <<"0", "2">>, <<"0", "3">>, <<"0", "4">> >>
Stems1212 == << <<"0", "1", "-", "0", "1">>, <<"0", "1", "-", "0", "2">>,
                <<"0", "2", "-", "0", "1">>, <<"0", "2", "-", "0", "2">> >>

C8_Stems ==
  \A k \in 1..Len(items) :
    /\ StartsWith(items[k].output_name, Stem(k) \o S_Sep)
    /\ file_entries = Example1234 =>
         StartsWith(items[k].output_name, Stems1234[k] \o S_Sep)
    /\ file_entries = Example1212 =>
         StartsWith(items[k].output_name, Stems1212[k] \o S_Sep)

C8_Witness ==
  /\ pc = "done" /\ file_entries = Example1212 /\ Len(items) = 4
  /\ ~NumbersIncrease

\* C9: the album title and the album performer are set by the first TITLE
\* and PERFORMER line read while no track is open, and once set are changed
\* by no later line, a TITLE before the tracks of a later FILE included.
C9_AlbumFirstWins ==
  [][ /\ ~IsNone(album_title) => album_title' = album_title
      /\ ~IsNone(album_performer) => album_performer' = album_performer
      /\ (ReadsLine /\ NoOpenTrack /\ IsNone(album_title))
           => /\ raw_line' = L_TitleA => album_title' = Some(<<"A">>)
              /\ raw_line' = L_TitleB => album_title' = Some(<<"B">>)
      /\ (ReadsLine /\ NoOpenTrack /\ IsNone(album_performer))
           => /\ raw_line' = L_PerfP => album_performer' = Some(<<"P">>)
              /\ raw_line' = L_PerfQ => album_performer' = Some(<<"Q">>)
      /\ album_title' # album_title => ReadsLine /\ NoOpenTrack
      /\ album_performer' # album_performer => ReadsLine /\ NoOpenTrack ]_vars

C9_Witness ==
  /\ pc = "lines" /\ raw_line = L_TitleB /\ album_title = Some(<<"A">>)
  /\ Len(file_entries) = 2 /\ NoOpenTrack

\* C10: a TITLE or PERFORMER line without its argument fails with
\* FormatError at that line.
C10_MissingArgumentFails ==
  (~eof /\ line_num >= 1 /\ raw_line \in {L_TitleBare, L_PerfBare})
    => (pc = "error" /\ err = Some([kind |-> "FormatError", line |-> line_num]))

\* C11: split_files hands nothing to run_ffmpeg, invokes no transcoder and
\* writes no file before parse_cue has returned a sheet that passed its
\* validation; a run that ends in an error of parse_cue (or without ffmpeg)
\* has made no call, invoked no transcoder and written no file.
C11_NoOutputBeforePlan ==
  /\ (items # <<>> \/ created # {} \/ written # 0 \/ ffmpeg_runs # 0)
       => (eof /\ WellFormed(file_entries))
  /\ (pc = "error" /\ Get(err).kind \notin SplitErrors)
       => (items = <<>> /\ created = {} /\ written = 0 /\ ffmpeg_runs = 0)

C11_Witness ==
  /\ pc = "error" /\ err = Some([kind |-> "MissingIndexError", line |-> 0])
  /\ Len(file_entries) = 1 /\ Len(file_entries[1].tracks) = 1
  /\ items = <<>> /\ ffmpeg_runs = 0

\* C12: with tagging requested the tags of each call of run_ffmpeg hold
\* TRACKNUMBER and TITLE, hold ALBUM only if the sheet has an album title,
\* hold ARTIST and ALBUMARTIST both or neither, both being the track's
\* performer if it has one and else the album performer, and no tag has an
\* empty value; with tagging not requested the tags are empty.
HasText(x) == ~IsNone(x) /\ Get(x) # <<>>
TagPerformer(track) ==
  IF HasText(track.performer) THEN track.performer ELSE album_performer

C12_Tags ==
  \A k \in 1..Len(items) :
    LET md == items[k].metadata
        keys == DOMAIN md
    IN IF ~tag_output THEN keys = {}
       ELSE /\ {"TRACKNUMBER", "TITLE"} \subseteq keys
            /\ keys \subseteq
                 {"TRACKNUMBER", "TITLE", "ALBUM", "ARTIST", "ALBUMARTIST"}
            /\ "ALBUM" \in keys => ~IsNone(album_title)
            /\ "ARTIST" \in keys <=> "ALBUMARTIST" \in keys
            /\ "ARTIST" \in keys <=> HasText(TagPerformer(Flat[k]))
            /\ "ARTIST" \in keys =>
                 /\ md["ARTIST"] = Get(TagPerformer(Flat[k]))
                 /\ md["ALBUMARTIST"] = md["ARTIST"]
            /\ \A key \in keys : md[key] # <<>>

\* C13: every track of a sheet parse_cue returns has a title that is not the
\* empty text.
C13_TitlesNonEmpty ==
  Returned =>
    \A k \in 1..Len(Flat) : ~IsNone(Flat[k].title) /\ Get(Flat[k].title) # <<>>

\* C14: for a text minutes:seconds:frames with two-digit seconds and frames,
\* parse_timecode fails with RangeError iff seconds >= 60 or frames >= 75,
\* and otherwise returns (minutes*60 + seconds)*75 + frames whole frames,
\* that is minutes*60 + seconds + frames/75 seconds exactly, never negative.
C14_Timecode ==
  \A i \in 1..Len(results) :
    /\ values[i] \in {TC_Sec60, TC_Frm75} => results[i].kind = "RangeError"
    /\ \A m \in MinutesDrawn, p \in 0..MaxPad, s \in SecondsDrawn,
          f \in FramesDrawn :
         values[i] = TimecodeText(m, p, s, f) =>
           /\ results[i].kind = "RangeError" <=> (s >= 60 \/ f >= 75)
           /\ results[i].kind # "RangeError" =>
                /\ results[i].kind = "ok"
                /\ results[i].val = (m * 60 + s) * 75 + f
                /\ results[i].val >= 0

C14_Witness ==
  /\ pc = "done" /\ values = <<TC_Max, TC_Frm75>>
  /\ results[1] = [kind |-> "ok", val |-> 49499]
  /\ results[2].kind = "RangeError"

\* C15 as stated: two distinct texts parse_timecode accepts are mapped to
\* distinct values.
Accepted(i) == i <= Len(results) /\ results[i].kind = "ok"

C15_Injective ==
  (Accepted(1) /\ Accepted(2) /\ values[1] # values[2])
    => results[1].val # results[2].val

\* C15: two texts parse_timecode accepts are mapped to the same value
\* exactly if they give the same minutes, seconds and frames as numbers,
\* that is if they are equal up to leading zeros of the minutes; texts with
\* different numbers are mapped to different values.
SameNumbers(a, b) ==
  \E m \in MinutesDrawn, s \in SecondsDrawn, f \in FramesDrawn,
     p1 \in 0..MaxPad, p2 \in 0..MaxPad :
    a = TimecodeText(m, p1, s, f) /\ b = TimecodeText(m, p2, s, f)

C15_InjectiveOnNumbers ==
  (Accepted(1) /\ Accepted(2))
    => (results[1].val = results[2].val <=> SameNumbers(values[1], values[2]))

C15_Witness ==
  /\ pc = "done" /\ values = <<TC_Zero1, TC_Zero2>>
  /\ Accepted(1) /\ Accepted(2) /\ results[1].val = results[2].val

\* The text is empty or whitespace only: nothing is left of it once cleaned
\* and trimmed, since cleaning replaces characters one for one by underscores.
Blank(v) == \A j \in 1..Len(v) : IsSpace(v[j])
\* A name that is not empty, holds no reserved character and no "..", and
\* neither starts nor ends with whitespace.
CleanName(r) ==
  /\ r # <<>>
  /\ \A j \in 1..Len(r) : r[j] \notin WINDOWS_RESERVED
  /\ \A j \in 1..(Len(r) - 1) : ~(r[j] = "." /\ r[j + 1] = ".")
  /\ ~IsSpace(r[1]) /\ ~IsSpace(r[Len(r)])

\* C16 as stated: sanitize_filename returns a clean name for every text, and
\* the name is untitled exactly when the cleaned and trimmed text is empty.
C16_Sanitize ==
  \A i \in 1..Len(results) :
    /\ CleanName(results[i])
    /\ results[i] = S_Untitled <=> Blank(values[i])

\* C16: sanitize_filename returns a clean name for every text; the name is
\* untitled exactly when the cleaned and trimmed text is empty or is the
\* text untitled itself; He: A/B?.flac gives He_ A_B_.flac and ../../etc
\* gives ______etc.
C16_SanitizeFallback ==
  \A i \in 1..Len(results) :
    /\ CleanName(results[i])
    /\ results[i] = S_Untitled <=>
         (Blank(values[i]) \/ Strip(values[i]) = S_Untitled)
    /\ values[i] = N_He => results[i] = N_HeClean
    /\ values[i] = N_Etc => results[i] = N_EtcClean

C16_Witness ==
  /\ pc = "done" /\ values = <<N_Etc>> /\ results = <<N_EtcClean>>

\* C17: an INDEX line with an index number other than 01, read while a
\* track is open, raises nothing and changes nothing of the sheet being
\* built; an INDEX 01 line read right after it for a track without a start
\* sets the start and raises nothing.
C17_OtherIndexIgnored ==
  [][ (ReadsLine /\ ~NoOpenTrack) =>
        /\ raw_line' = L_Pregap =>
             /\ pc' = "lines" /\ err' = None
             /\ file_entries' = file_entries
             /\ current_file' = current_file /\ current_track' = current_track
             /\ album_title' = album_title
             /\ album_performer' = album_performer
        /\ (raw_line = L_Pregap /\ raw_line' = L_Index1
              /\ IsNone(OpenTrack.start))
             => /\ pc' = "lines" /\ err' = None
                /\ file_entries' =
                     [file_entries EXCEPT
                        ![current_file].tracks[current_track].start = Some(75)]
    ]_vars

C17_Witness ==
  /\ pc = "lines" /\ raw_line = L_Pregap /\ line_num = 3
  /\ ~NoOpenTrack /\ IsNone(OpenTrack.start)

\* C18: a FILE line closes the open track.  A step changes a track the sheet
\* already holds only by reading a line while that track is the last track
\* of the last FileEntry, so no line after the next FILE or TRACK line
\* changes it; files and tracks are only ever appended; and while no track
\* is open (after a FILE line, before the next TRACK line) a TITLE,
\* PERFORMER or INDEX line changes no FileEntry, an INDEX line failing with
\* SequenceError.
FileOrTrackLines == {L_FileA, L_FileB, L_FileBad} \cup TrackLines

C18_FileClosesTrack ==
  [][ /\ Len(file_entries') >= Len(file_entries)
      /\ \A f \in 1..Len(file_entries) :
           /\ file_entries'[f].path = file_entries[f].path
           /\ Len(file_entries'[f].tracks) >= Len(file_entries[f].tracks)
           /\ \A t \in 1..Len(file_entries[f].tracks) :
                file_entries'[f].tracks[t] # file_entries[f].tracks[t]
                  => /\ ReadsLine
                     /\ f = Len(file_entries)
                     /\ t = Len(file_entries[f].tracks)
                     /\ raw_line' \notin FileOrTrackLines
      /\ (ReadsLine /\ NoOpenTrack /\ raw_line' \notin FileOrTrackLines)
           => /\ file_entries' = file_entries
              /\ raw_line' \in IndexLines
                   => pc' = "error" /\ err' = SequenceErrorAt(line_num + 1)
    ]_vars

C18_Witness ==
  /\ pc = "lines" /\ line_num = 4 /\ raw_line = L_TitleA
  /\ Len(file_entries) = 2 /\ NoOpenTrack
  /\ Len(file_entries[1].tracks) = 1 /\ IsNone(file_entries[1].tracks[1].title)
  /\ album_title = Some(<<"A">>)

\* C19: split_files calls run_ffmpeg for one track at a time in (file,
\* track) order and stops at the first call that fails: after a failure of
\* the k-th call exactly the first k-1 outputs are written and no step
\* follows; written counts the completed calls, and is the number of tracks
\* when split_files returns.
C19_State ==
  /\ pc \in {"split", "done"} => (err = None /\ written = Len(items))
  /\ pc = "error" =>
       /\ Get(err).kind \in SplitErrors
       /\ written = Len(items) - 1
  /\ pc = "done" => written = Len(Flat)
  /\ created = { items[k].output_name : k \in 1..written }
  /\ Cardinality(created) = written
  /\ \A k \in 1..Len(items) :
       /\ k <= Len(Flat)
       /\ items[k].input_path = file_entries[FileOf(k)].path
       /\ items[k].start = Flat[k].start

C19_Sequential ==
  /\ []C19_State
  /\ [][ /\ pc = "split"
         /\ Len(items') = Len(items) + 1
         /\ SubSeq(items', 1, Len(items)) = items
         /\ written' \in {written, written + 1}
         /\ written' = written <=> pc' = "error" ]_vars

C19_Witness ==
  /\ pc = "error" /\ Get(err).kind = "CalledProcessError"
  /\ Len(Flat) = 4 /\ Len(items) = 3 /\ written = 2

\* C20: run_ffmpeg never writes over an existing file.  A call whose output
\* name was written earlier in the run fails with FileExistsError; a call
\* that fails with FileExistsError has invoked no transcoder and written
\* nothing; and the files written are never lost.  Two tracks of a sheet
\* whose numbers do not increase may share a name: the second call fails.
LastItem == items'[Len(items')]

C20_NoOverwrite ==
  [][ /\ created \subseteq created'
      /\ LastItem.output_name \in created
           => pc' = "error" /\ Get(err').kind = "FileExistsError"
      /\ (pc' = "error" /\ Get(err').kind = "FileExistsError")
           => /\ created' = created
              /\ ffmpeg_runs' = ffmpeg_runs
              /\ written' = written
      /\ created' # created
           => /\ created' = created \cup {LastItem.output_name}
              /\ ffmpeg_runs' = ffmpeg_runs + 1 ]_vars

C20_Witness ==
  /\ pc = "error" /\ Get(err).kind = "FileExistsError" /\ ~NumbersIncrease
  /\ Len(items) = 2 /\ items[1].output_name = items[2].output_name
  /\ written = 1 /\ created = {items[1].output_name} /\ ffmpeg_runs = 1

====
